---- MODULE Spec2Model ----
(***************************************************************************)
(* A model of libwyag.py: the object store (object_read, object_write,     *)
(* object_find), the object classes (GitBlob, GitTree, GitCommit), the     *)
(* KVLM and tree-entry codecs, and the commit graph walker (log_graphviz). *)
(*                                                                         *)
(* Byte strings and Python str values are sequences of character codes.    *)
(* Indices handed to the Py* operators are Python's (0-based, negative     *)
(* ones counting from the end); -1 is bytes.find's "not found".            *)
(***************************************************************************)
EXTENDS Integers, Sequences, FiniteSets, TLC

VARIABLES
    dirs,       \* the bucket directories that exist under .git/objects
    files,      \* path <<bucket, name>> |-> bytes of the entry file
    last,       \* the last store operation and its outcome
    rep,        \* how many times in a row the last persisted write was repeated
    wpc, wbuf,  \* the racing writer: position, bytes still to be written
    rpc, rres,  \* the racing reader: position, outcome
    wobj,       \* the object the race is about
    stack,      \* the walker's call stack
    seen,       \* the walker's seen set
    visits,     \* the walker: sha |-> number of times it was read from the store
    edges,      \* the walker: the edges printed, in order
    wstatus,    \* the walker: "run", "returned" or the error that ended it
    cin,        \* the codec runs: the input payload and its class
    cphase,     \* the codec runs: position
    cobj, cser, cobj2  \* the codec runs: parsed object, its serialization, the re-parse

storeVars == <<dirs, files, last, rep>>
raceVars  == <<wpc, wbuf, rpc, rres, wobj>>
walkVars  == <<stack, seen, visits, edges, wstatus>>
codecVars == <<cin, cphase, cobj, cser, cobj2>>
vars == <<dirs, files, last, rep, wpc, wbuf, rpc, rres, wobj,
          stack, seen, visits, edges, wstatus, cin, cphase, cobj, cser, cobj2>>

----------------------------------------------------------------------------
(* Bytes *)

SP  == 32
NL  == 10
NUL == 0

fmtBlob   == <<98, 108, 111, 98>>
fmtCommit == <<99, 111, 109, 109, 105, 116>>
fmtTree   == <<116, 114, 101, 101>>
fmtTag    == <<116, 97, 103>>

MinOf(S) == CHOOSE x \in S : \A y \in S : x <= y

\* raw.find(b, start) for a one-byte pattern b
PyFind(raw, b, start) ==
    LET n  == Len(raw)
        s0 == IF start < 0 THEN (IF n + start < 0 THEN 0 ELSE n + start) ELSE start
        hits == {i \in s0..(n - 1) : raw[i + 1] = b}
    IN  IF hits = {} THEN -1 ELSE MinOf(hits)

PyNorm(n, k) == IF k < 0 THEN (IF n + k < 0 THEN 0 ELSE n + k)
                ELSE (IF k > n THEN n ELSE k)

\* raw[i:j]
PySlice(raw, i, j) ==
    LET a == PyNorm(Len(raw), i)
        b == PyNorm(Len(raw), j)
    IN  IF a < b THEN SubSeq(raw, a + 1, b) ELSE <<>>

\* raw[i:]
PySliceFrom(raw, i) == PySlice(raw, i, Len(raw))

\* The pieces f[lo], ..., f[hi] joined, by halves
RECURSIVE ConcatRange(_, _, _)
ConcatRange(f, lo, hi) ==
    IF lo > hi THEN <<>>
    ELSE IF lo = hi THEN f[lo]
    ELSE LET mid == (lo + hi) \div 2
         IN  ConcatRange(f, lo, mid) \o ConcatRange(f, mid + 1, hi)

Concat(ss) == ConcatRange(ss, 1, Len(ss))

\* str(n).encode() for n >= 0
RECURSIVE StrOfNat(_)
StrOfNat(n) == IF n < 10 THEN <<48 + n>> ELSE StrOfNat(n \div 10) \o <<48 + (n % 10)>>

IsSpace(c) == c \in {9, 10, 11, 12, 13, 32}
IsDigit(c) == c \in 48..57

MaxOf(S) == CHOOSE x \in S : \A y \in S : x >= y

LStrip(s) == LET keep == {i \in 1..Len(s) : ~IsSpace(s[i])}
             IN  IF keep = {} THEN <<>> ELSE SubSeq(s, MinOf(keep), Len(s))

RStrip(s) == LET keep == {i \in 1..Len(s) : ~IsSpace(s[i])}
             IN  IF keep = {} THEN <<>> ELSE SubSeq(s, 1, MaxOf(keep))

RECURSIVE DigitsValue(_)
DigitsValue(s) == IF s = <<>> THEN 0
                  ELSE 10 * DigitsValue(SubSeq(s, 1, Len(s) - 1)) + (s[Len(s)] - 48)

\* int(b.decode("ascii")): surrounding whitespace and a sign are accepted
IntOfAscii(b) ==
    LET t == RStrip(LStrip(b))
        signed == t # <<>> /\ t[1] \in {43, 45}
        d == IF signed THEN Tail(t) ELSE t
    IN  IF \E i \in 1..Len(b) : b[i] > 127
        THEN [ok |-> FALSE, err |-> "UnicodeDecodeError", val |-> 0]
        ELSE IF d = <<>> \/ \E i \in 1..Len(d) : ~IsDigit(d[i])
        THEN [ok |-> FALSE, err |-> "ValueError", val |-> 0]
        ELSE [ok |-> TRUE, err |-> "",
              val |-> IF signed /\ t[1] = 45 THEN 0 - DigitsValue(d) ELSE DigitsValue(d)]

HexChar(v) == IF v < 10 THEN 48 + v ELSE 87 + v
HexVal(c)  == IF c \in 48..57 THEN c - 48
              ELSE IF c \in 97..102 THEN c - 87
              ELSE IF c \in 65..70 THEN c - 55 ELSE -1

----------------------------------------------------------------------------
(* zlib and SHA-1 *)

AdlerMod == 65521

RECURSIVE SumRange(_, _, _)
SumRange(s, lo, hi) ==
    IF lo > hi THEN 0
    ELSE IF lo = hi THEN s[lo]
    ELSE LET mid == (lo + hi) \div 2
         IN  SumRange(s, lo, mid) + SumRange(s, mid + 1, hi)

SumBytes(s) == SumRange(s, 1, Len(s))

Adler(s) == (1 + SumBytes(s)) % AdlerMod

\* zlib.compress: the two header bytes, the stream, a two-byte checksum of
\* the data.  The stream is stored; what matters to the callers is that the
\* output differs from the input and that a cut stream does not decompress.
ZlibCompress(s) == <<120, 156>> \o s \o <<Adler(s) \div 256, Adler(s) % 256>>

ZlibDecompress(z) ==
    LET n == Len(z)
        body == SubSeq(z, 3, n - 2)
    IN  IF n < 4 \/ z[1] # 120 \/ z[2] # 156
        THEN [ok |-> FALSE, err |-> "zlib.error", val |-> <<>>]
        ELSE IF <<z[n - 1], z[n]>> # <<Adler(body) \div 256, Adler(body) % 256>>
        THEN [ok |-> FALSE, err |-> "zlib.error", val |-> <<>>]
        ELSE [ok |-> TRUE, err |-> "", val |-> body]

HashModA == 4093
HashModB == 4091
HashMulA == 31
HashMulB == 37
ShaHexLen == 40
HashNibbles == 6

\* The polynomial hash of s[lo..hi] modulo m, with mul^(hi-lo+1) modulo m
RECURSIVE PolyRange(_, _, _, _, _)
PolyRange(s, lo, hi, mul, m) ==
    IF lo > hi THEN [h |-> 0, p |-> 1]
    ELSE IF lo = hi THEN [h |-> (s[lo] + 1) % m, p |-> mul % m]
    ELSE LET mid == (lo + hi) \div 2
             l == PolyRange(s, lo, mid, mul, m)
             r == PolyRange(s, mid + 1, hi, mul, m)
         IN  [h |-> (l.h * r.p + r.h) % m, p |-> (l.p * r.p) % m]

PolyHash(s, mul, m) ==
    LET r == PolyRange(s, 1, Len(s), mul, m)
    IN  (((Len(s) + 7) % m) * r.p + r.h) % m

\* hashlib.sha1(b).hexdigest(): 40 lowercase hex characters, a function of
\* the bytes alone.  The digest is a pair of 12-bit polynomial hashes whose
\* six hex digits are repeated to the width of a SHA-1 digest.
HexDigest(ha, hb) ==
    LET nib == <<ha \div 256, (ha \div 16) % 16, ha % 16,
                 hb \div 256, (hb \div 16) % 16, hb % 16>>
    IN  [i \in 1..ShaHexLen |-> HexChar(nib[((i - 1) % HashNibbles) + 1])]

Sha1Hex(b) == HexDigest(PolyHash(b, HashMulA, HashModA), PolyHash(b, HashMulB, HashModB))

----------------------------------------------------------------------------
(* Outcomes: a returned value, or the exception that was raised *)

\* The function f, every value of it computed once
Table(f) == f @@ <<>>

Ok(v)  == [ok |-> TRUE, err |-> "", val |-> v]
Err(e) == [ok |-> FALSE, err |-> e, val |-> <<>>]

----------------------------------------------------------------------------
(* KVLM codec *)

\* b.replace(old, new) for a non-empty old no occurrence of which can
\* overlap another (one byte, or a newline and a space): every occurrence
\* is replaced
PyReplace(b, old, new) ==
    LET L == Len(old)
        at == {i \in 1..(Len(b) - L + 1) : SubSeq(b, i, i + L - 1) = old}
        piece == [i \in 1..Len(b) |->
                    IF i \in at THEN new
                    ELSE IF \E j \in at : j < i /\ i < j + L THEN <<>>
                    ELSE <<b[i]>>]
    IN  Concat(piece)

\* An OrderedDict is the sequence of its items [k, v] in insertion order; v
\* is the sequence of the key's values (one value: a bytes, more: a list).
DictKeys(d) == {d[i].k : i \in 1..Len(d)}
DictGet(d, key) == (CHOOSE i \in 1..Len(d) : d[i].k = key)
DictVal(d, key) == d[DictGet(d, key)].v

\* dct[key] = v
DictPut(d, key, v) ==
    IF key \in DictKeys(d)
    THEN [d EXCEPT ![DictGet(d, key)] = [k |-> key, v |-> v]]
    ELSE Append(d, [k |-> key, v |-> v])

\* kvlm_parse's value stored under key, lines 335-341
DictAdd(d, key, value) ==
    IF key \in DictKeys(d)
    THEN DictPut(d, key, Append(DictVal(d, key), value))
    ELSE DictPut(d, key, <<value>>)

\* The while loop that finds the end of the value.  An end that comes back
\* means the loop never leaves.
RECURSIVE KvlmValueEnd(_, _, _)
KvlmValueEnd(raw, end, tried) ==
    LET e == PyFind(raw, NL, end + 1)
    IN  IF e + 1 >= Len(raw) THEN [st |-> "IndexError", end |-> e]
        ELSE IF raw[e + 2] # SP THEN [st |-> "ok", end |-> e]
        ELSE IF e \in tried THEN [st |-> "hang", end |-> e]
        ELSE KvlmValueEnd(raw, e, tried \cup {e})

KvlmUnfold(value) == PyReplace(value, <<NL>>, <<NL>>)

\* kvlm_parse(raw, start, dct); starts are the starts of the calls below
\* this one: a start that comes back is a recursion that never ends.
RECURSIVE KvlmParseFrom(_, _, _, _)

\* kvlm_parse from line 323 on: spc is where the key ends, e what the loop
\* for the end of the value came to
KvlmKeyValue(raw, start, dct, starts, spc, e) ==
    IF e.st = "IndexError" THEN Err("IndexError")
    ELSE IF e.st = "hang" THEN Err("Hang")
    ELSE IF (e.end + 1) \in (starts \cup {start}) THEN Err("RecursionError")
    ELSE KvlmParseFrom(raw, e.end + 1,
                       DictAdd(dct, PySlice(raw, start, spc),
                               KvlmUnfold(PySlice(raw, spc + 1, e.end))),
                       starts \cup {start})

KvlmParseFrom(raw, start, dct, starts) ==
    LET spc == PyFind(raw, SP, start)
        nl  == PyFind(raw, NL, start)
    IN  IF spc < 0 \/ nl < spc
        THEN IF nl # start THEN Err("AssertionError")
             ELSE Ok(DictPut(dct, <<>>, <<PySliceFrom(raw, start + 1)>>))
        ELSE KvlmKeyValue(raw, start, dct, starts, spc, KvlmValueEnd(raw, start, {}))

kvlm_parse(raw) == KvlmParseFrom(raw, 0, <<>>, {})

KvlmFold(v) == PyReplace(v, <<NL>>, <<NL>>)

RECURSIVE KvlmLines(_, _)
KvlmLines(key, vals) ==
    IF vals = <<>> THEN <<>>
    ELSE key \o <<SP>> \o KvlmFold(Head(vals)) \o <<NL>> \o KvlmLines(key, Tail(vals))

RECURSIVE KvlmBlock(_)
KvlmBlock(d) ==
    IF d = <<>> THEN <<>>
    ELSE (IF Head(d).k = <<>> THEN <<>> ELSE KvlmLines(Head(d).k, Head(d).v))
         \o KvlmBlock(Tail(d))

kvlm_serialize(kvlm) ==
    IF <<>> \notin DictKeys(kvlm) THEN Err("KeyError")
    ELSE IF Len(DictVal(kvlm, <<>>)) # 1 THEN Err("TypeError")
    ELSE Ok(KvlmBlock(kvlm) \o <<NL>> \o DictVal(kvlm, <<>>)[1])

----------------------------------------------------------------------------
(* Tree entry codec *)

ShaBytes == 20
ModeLenShort == 5
ModeLenLong == 6

HexOfBytes(b) ==
    [i \in 1..(2 * Len(b)) |->
        IF i % 2 = 1 THEN HexChar(b[(i + 1) \div 2] \div 16) ELSE HexChar(b[i \div 2] % 16)]

StripZeros(h) == LET keep == {i \in 1..Len(h) : h[i] # 48}
                 IN  IF keep = {} THEN <<>> ELSE SubSeq(h, MinOf(keep), Len(h))

\* hex(int.from_bytes(b, "big"))[2:]
HexOfInt(b) == LET h == StripZeros(HexOfBytes(b)) IN IF h = <<>> THEN <<48>> ELSE h

BytesOfHexDigits(h) ==
    [i \in 1..(Len(h) \div 2) |-> 16 * HexVal(h[2 * i - 1]) + HexVal(h[2 * i])]

\* int(sha, 16).to_bytes(20, byteorder="big")
BytesOfInt(sha) ==
    LET h == StripZeros(sha)
    IN  IF sha = <<>> \/ \E i \in 1..Len(sha) : HexVal(sha[i]) < 0 THEN Err("ValueError")
        ELSE IF Len(h) > 2 * ShaBytes THEN Err("OverflowError")
        ELSE Ok(BytesOfHexDigits([i \in 1..(2 * ShaBytes - Len(h)) |-> 48] \o h))

GitTreeLeaf(mode, path, sha) == [mode |-> mode, path |-> path, sha |-> sha]

tree_parse_one(raw, start) ==
    LET x == PyFind(raw, SP, start)
        y == PyFind(raw, NUL, x)
    IN  IF ~(x - start = ModeLenShort \/ x - start = ModeLenLong) THEN Err("AssertionError")
        ELSE Ok([pos |-> y + 1 + ShaBytes,
                 data |-> GitTreeLeaf(PySlice(raw, start, x), PySlice(raw, x + 1, y),
                                      HexOfInt(PySlice(raw, y + 1, y + 1 + ShaBytes)))])

\* tree_parse's loop; a pos that comes back means the loop never leaves.
RECURSIVE TreeParseFrom(_, _, _, _)

\* One pass of tree_parse's loop, one being what tree_parse_one came to
TreeParseStep(raw, pos, ret, tried, one) ==
    IF ~one.ok THEN one
    ELSE TreeParseFrom(raw, one.val.pos, Append(ret, one.val.data), tried \cup {pos})

TreeParseFrom(raw, pos, ret, tried) ==
    IF ~(pos < Len(raw)) THEN Ok(ret)
    ELSE IF pos \in tried THEN Err("Hang")
    ELSE TreeParseStep(raw, pos, ret, tried, tree_parse_one(raw, pos))

tree_parse(raw) == TreeParseFrom(raw, 0, <<>>, {})

\* One pass of tree_serialize's loop: entry i after the bytes so far
TreeSerializeOne(ret, i, sha) ==
    IF ~ret.ok THEN ret
    ELSE IF ~sha.ok THEN sha
    ELSE Ok(ret.val \o i.mode \o <<SP>> \o i.path \o <<NUL>> \o sha.val)

RECURSIVE TreeSerializeItems(_, _)
TreeSerializeItems(items, k) ==
    IF k = 0 THEN Ok(<<>>)
    ELSE TreeSerializeOne(TreeSerializeItems(items, k - 1), items[k], BytesOfInt(items[k].sha))

tree_serialize(obj) == TreeSerializeItems(obj.items, Len(obj.items))

----------------------------------------------------------------------------
(* Object model *)

NoObject == [cls |-> "None", fmt |-> <<>>, blobdata |-> <<>>, items |-> <<>>, kvlm |-> <<>>]

\* GitBlob(repo, data)
GitBlob(data) == Ok([NoObject EXCEPT !.cls = "GitBlob", !.fmt = fmtBlob, !.blobdata = data])

\* The GitTree whose deserialize came to items (or raised)
TreeObject(items) ==
    IF ~items.ok THEN items
    ELSE Ok([NoObject EXCEPT !.cls = "GitTree", !.fmt = fmtTree, !.items = items.val])

\* GitTree(repo, data)
GitTree(data) == TreeObject(tree_parse(data))

\* The GitCommit whose deserialize came to kvlm (or raised)
CommitObject(kvlm) ==
    IF ~kvlm.ok THEN kvlm
    ELSE Ok([NoObject EXCEPT !.cls = "GitCommit", !.fmt = fmtCommit, !.kvlm = kvlm.val])

\* GitCommit(repo, data)
GitCommit(data) == CommitObject(kvlm_parse(data))

\* GitTag is no class of the module: GitTag(repo, data) is a NameError
GitTag(data) == Err("NameError")

GitCommitSerialize(obj) == Err("AttributeError")

\* obj.serialize()
Serialize(obj) ==
    CASE obj.cls = "GitBlob"   -> Ok(obj.blobdata)
      [] obj.cls = "GitTree"   -> tree_serialize(obj)
      [] obj.cls = "GitCommit" -> GitCommitSerialize(obj)
      [] OTHER                 -> Err("Unimplemented!")

\* The constructor the type tag selects (object_read 271-281, object_hash 445-454)
Construct(fmt, data) ==
    CASE fmt = fmtCommit -> GitCommit(data)
      [] fmt = fmtTree   -> GitTree(data)
      [] fmt = fmtTag    -> GitTag(data)
      [] fmt = fmtBlob   -> GitBlob(data)
      [] OTHER           -> Err("UnknownType")

----------------------------------------------------------------------------
(* The payloads and objects the runs draw from *)

MaxBlobLen == 1

BytesUpTo(A, len) == UNION {[1..k -> A] : k \in 0..len}

BlobPayloads == BytesUpTo({NUL}, MaxBlobLen) \cup {<<97>>}

Frame(fmt, data) == fmt \o <<SP>> \o StrOfNat(Len(data)) \o <<NUL>> \o data

ObjectDigestOfPayload(fmt, data) == Sha1Hex(data)

\* sha of object_write, lines 288-289
ObjectDigest(fmt, data) == Sha1Hex(Frame(fmt, data))

Mode100644 == <<49, 48, 48, 54, 52, 52>>
Mode40000  == <<52, 48, 48, 48, 48>>

\* One tree entry as git writes it: mode SP path NUL and the 20 digest bytes
EntryBytes(mode, path, sha) == mode \o <<SP>> \o path \o <<NUL>> \o BytesOfHexDigits(sha)

ShaBlobEmpty == ObjectDigest(fmtBlob, <<>>)
ShaBlobA     == ObjectDigest(fmtBlob, <<97>>)

TreeOne == EntryBytes(Mode100644, <<97>>, ShaBlobEmpty)
TreeTwo == EntryBytes(Mode40000, <<100>>, ObjectDigest(fmtTree, TreeOne))
           \o EntryBytes(Mode100644, <<101, 32, 102>>, ShaBlobA)

TreePayloads == {<<>>, TreeOne}

KwTree   == <<116, 114, 101, 101>>
KwParent == <<112, 97, 114, 101, 110, 116>>

RECURSIVE ParentLines(_)
ParentLines(ps) ==
    IF ps = <<>> THEN <<>>
    ELSE KwParent \o <<SP>> \o Head(ps) \o <<NL>> \o ParentLines(Tail(ps))

\* A commit payload as git writes it
CommitBytes(tree, parents, msg) ==
    KwTree \o <<SP>> \o tree \o <<NL>> \o ParentLines(parents) \o <<NL>> \o msg

CommitRoot == CommitBytes(ObjectDigest(fmtTree, TreeOne), <<>>, <<109, NL>>)

CommitPayloads == {CommitRoot}

\* What object_hash is handed: a file's bytes and the -t type
HashInputs ==
    (BlobPayloads \X {fmtBlob}) \cup (TreePayloads \X {fmtTree})
    \cup (CommitPayloads \X {fmtCommit, fmtTree}) \cup {<<<<97>>, fmtTag>>}

\* Construct, tabulated over the inputs
Constructed == Table([i \in HashInputs |-> Construct(i[2], i[1])])

\* The objects a caller can hold: what the constructors return
Objects == {Constructed[i].val : i \in {j \in HashInputs : Constructed[j].ok}}

----------------------------------------------------------------------------
(* Object store *)

NoFiles == [p \in {} |-> <<>>]

Bucket(sha)    == PySlice(sha, 0, 2)
EntryName(sha) == PySliceFrom(sha, 2)

\* repo_dir(repo, "objects", bucket, mkdir=mkdir): the path, or None
repo_dir(ds, bucket, mkdir) ==
    IF bucket \in ds THEN [found |-> TRUE, dirs |-> ds]
    ELSE IF mkdir THEN [found |-> TRUE, dirs |-> ds \cup {bucket}]
    ELSE [found |-> FALSE, dirs |-> ds]

\* repo_file(repo, "objects", bucket, name, mkdir=mkdir): the path, or None
repo_file(ds, bucket, name, mkdir) ==
    LET d == repo_dir(ds, bucket, mkdir)
    IN  [found |-> d.found, path |-> <<bucket, name>>, dirs |-> d.dirs]

\* open(path, 'wb'): the file exists and is empty
OpenTruncate(fs, path) ==
    [p \in DOMAIN fs \cup {path} |-> IF p = path THEN <<>> ELSE fs[p]]

OpenAppend(fs, path) ==
    [p \in DOMAIN fs \cup {path} |-> IF p \in DOMAIN fs THEN fs[p] ELSE <<>>]

\* with open(path, 'wb') as f
OpenForWrite(fs, path) == OpenTruncate(fs, path)

\* f.write(b) on the open file
WriteBytes(fs, path, b) == [fs EXCEPT ![path] = @ \o b]

\* The part of object_write that reads no store: the serialization (or what
\* it raised), the digest, and the bytes written to the file
EncodeData(fmt, data) ==
    IF ~data.ok THEN [ok |-> FALSE, err |-> data.err, sha |-> <<>>, z |-> <<>>]
    ELSE [ok |-> TRUE, err |-> "",
          sha |-> ObjectDigest(fmt, data.val),
          z |-> ZlibCompress(Frame(fmt, data.val))]

EncodeObject(obj) == EncodeData(obj.fmt, Serialize(obj))

\* EncodeObject, tabulated over the objects
Encoded == Table([o \in Objects |-> EncodeObject(o)])

\* object_write(obj, actually_write) on the store (ds, fs): what it returns
\* or raises, and the store it leaves
\* object_write from line 291 on, e being what lines 287-289 came to
StoreEncoded(ds, fs, e, actually_write) ==
    LET rf == repo_file(ds, Bucket(e.sha), EntryName(e.sha), actually_write)
    IN  IF ~e.ok THEN [out |-> Err(e.err), dirs |-> ds, files |-> fs]
        ELSE IF ~actually_write THEN [out |-> Ok(e.sha), dirs |-> ds, files |-> fs]
        ELSE [out |-> Ok(e.sha), dirs |-> rf.dirs,
              files |-> WriteBytes(OpenForWrite(fs, rf.path), rf.path, e.z)]

object_write(ds, fs, obj, actually_write) ==
    StoreEncoded(ds, fs, Encoded[obj], actually_write)

\* object_hash(f, fmt, repo): repo is handed on as actually_write
\* object_hash from line 456 on, obj being what the constructor came to
HashConstructed(ds, fs, obj, hasRepo) ==
    IF ~obj.ok THEN [out |-> obj, dirs |-> ds, files |-> fs]
    ELSE object_write(ds, fs, obj.val, hasRepo)

object_hash(ds, fs, data, fmt, hasRepo) ==
    HashConstructed(ds, fs, Constructed[<<data, fmt>>], hasRepo)

\* object_read from the decompressed bytes on, lines 263-283
ObjectSized(raw, x, y, size) ==
    IF ~size.ok THEN Err(size.err)
    ELSE IF size.val # Len(raw) - y - 1 THEN Err("MalformedObject")
    ELSE Construct(PySlice(raw, 0, x), PySliceFrom(raw, y + 1))

ObjectHeader(raw, x, y) == ObjectSized(raw, x, y, IntOfAscii(PySlice(raw, x, y)))

ObjectParse(raw) ==
    IF ~raw.ok THEN Err(raw.err)
    ELSE ObjectHeader(raw.val, PyFind(raw.val, SP, 0),
                      PyFind(raw.val, NUL, PyFind(raw.val, SP, 0)))

\* object_read from the bytes of the file on, lines 261-283
ObjectLoad(content) == ObjectParse(ZlibDecompress(content))

\* An entry of the store as a reader finds it
Entry(sha, content) == [sha |-> sha, content |-> content]

ObjectEntry(fmt, data) == Entry(ObjectDigest(fmt, data), ZlibCompress(Frame(fmt, data)))

\* Entries no object_write made: a declared length that is not the
\* payload's, a type tag of no class
BadLengthEntry == Entry(Sha1Hex(<<1>>), ZlibCompress(fmtBlob \o <<SP, 53, NUL, 97, 98, 99>>))
BadTypeEntry   == Entry(Sha1Hex(<<2>>), ZlibCompress(<<98, 108, 117, 98, SP, 49, NUL, 97>>))

ShaAbsent == Sha1Hex(<<5>>)

ReadEntries ==
    {ObjectEntry(fmtBlob, <<>>), ObjectEntry(fmtTree, TreeOne), ObjectEntry(fmtTree, TreeTwo),
     ObjectEntry(fmtCommit, CommitRoot), BadLengthEntry, BadTypeEntry}

ReadShas == {e.sha : e \in ReadEntries} \cup {ShaAbsent}

\* The names of the commits of a history, and what a parent line can name:
\* one of them, or a digest with no entry
CommitNames == <<Sha1Hex(<<11>>), Sha1Hex(<<12>>), Sha1Hex(<<13>>), Sha1Hex(<<14>>)>>
ParentNames == CommitNames \o <<ShaAbsent>>

\* The parent lines of a commit, in the order of the file
ParentsAt(js) ==
    LET idx == SelectSeq([j \in 1..Len(ParentNames) |-> j], LAMBDA j : j \in js)
    IN  [k \in 1..Len(idx) |-> ParentNames[idx[k]]]

\* The entry of a commit whose parents are those at js, tabulated
CommitContent ==
    Table([js \in SUBSET (1..Len(ParentNames)) |->
        ZlibCompress(Frame(fmtCommit,
            CommitBytes(ObjectDigest(fmtTree, TreeOne), ParentsAt(js), <<109, NL>>)))])

\* What a file holds while b is being written to it
Prefixes(b) == {SubSeq(b, 1, k) : k \in 0..Len(b)}

\* The bytes a file of the store can hold
Contents ==
    {Encoded[o].z : o \in Objects} \cup {e.content : e \in ReadEntries}
    \cup UNION {Prefixes(Encoded[o].z) : o \in Objects}
    \cup {CommitContent[js] : js \in DOMAIN CommitContent}

\* ObjectLoad, tabulated over the contents
Loaded == Table([c \in Contents |-> ObjectLoad(c)])

\* object_read(repo, sha)
object_read(ds, fs, sha) ==
    IF ~repo_file(ds, Bucket(sha), EntryName(sha), FALSE).found THEN Err("TypeError")
    ELSE IF <<Bucket(sha), EntryName(sha)>> \notin DOMAIN fs THEN Err("FileNotFoundError")
    ELSE Loaded[fs[<<Bucket(sha), EntryName(sha)>>]]

\* object_find(repo, name, fmt, follow)
object_find(ds, fs, name, fmt) == Ok(name)

\* cat_file from the read object on: the bytes written to stdout
CatObject(obj) == IF ~obj.ok THEN obj ELSE Serialize(obj.val)

\* cat_file(repo, obj, fmt)
cat_file(ds, fs, name, fmt) ==
    CatObject(object_read(ds, fs, object_find(ds, fs, name, fmt).val))

\* "0" * (6 - len(item.mode)) + item.mode
PadMode(mode) == [i \in 1..(ModeLenLong - Len(mode)) |-> 48] \o mode

\* One pass of cmd_ls_tree's loop: the line of item after the lines so far
LsTreeLine(out, item, child) ==
    IF out.err # "" THEN out
    ELSE IF ~child.ok THEN [out EXCEPT !.err = child.err]
    ELSE [out EXCEPT !.lines = Append(@, <<PadMode(item.mode), child.val.fmt, item.sha, item.path>>)]

RECURSIVE LsTreeLines(_, _, _, _)
LsTreeLines(ds, fs, items, k) ==
    IF k = 0 THEN [lines |-> <<>>, err |-> ""]
    ELSE LsTreeLine(LsTreeLines(ds, fs, items, k - 1), items[k],
                    object_read(ds, fs, items[k].sha))

\* cmd_ls_tree from the read object on
LsTreeObject(ds, fs, obj) ==
    IF ~obj.ok THEN [lines |-> <<>>, err |-> obj.err]
    ELSE IF obj.val.cls # "GitTree" THEN [lines |-> <<>>, err |-> "AttributeError"]
    ELSE LsTreeLines(ds, fs, obj.val.items, Len(obj.val.items))

\* cmd_ls_tree(args): the lines printed and the exception that ended it
cmd_ls_tree(ds, fs, name) ==
    LsTreeObject(ds, fs, object_read(ds, fs, object_find(ds, fs, name, fmtTree).val))

----------------------------------------------------------------------------
(* Spec: object_write and object_hash on a store that starts empty *)

Walk(st, err) == [st |-> st, err |-> err]

\* The reader before it has looked at anything
NoRead == [found |-> FALSE, content |-> <<>>, out |-> Err("")]

IdleStore == /\ dirs = {} /\ files = NoFiles
             /\ last = [op |-> "none"] /\ rep = 0
IdleRace  == /\ wpc = "idle" /\ wbuf = <<>> /\ rpc = "idle"
             /\ rres = NoRead /\ wobj = NoObject
IdleWalk  == /\ stack = <<>> /\ seen = {} /\ visits = <<>>
             /\ edges = <<>> /\ wstatus = Walk("idle", "")
IdleCodec == /\ cin = [fmt |-> <<>>, data |-> <<>>] /\ cphase = "idle"
             /\ cobj = Err("") /\ cser = Err("") /\ cobj2 = Err("")

Init == IdleStore /\ IdleRace /\ IdleWalk /\ IdleCodec

\* The count of consecutive persisted writes of the same object
NextRep(obj, aw) ==
    IF ~aw THEN 0
    ELSE IF last.op = "object_write" /\ last.aw /\ last.obj = obj
    THEN (IF rep < 2 THEN rep + 1 ELSE 2)
    ELSE 1

ObjectWrite(o, aw) ==
    \E r \in {object_write(dirs, files, o, aw)} :
        /\ dirs' = r.dirs
        /\ files' = r.files
        /\ last' = [op |-> "object_write", obj |-> o, aw |-> aw, out |-> r.out]
        /\ rep' = NextRep(o, aw)
        /\ UNCHANGED <<raceVars, walkVars, codecVars>>

\* cmd_hash_object's object_hash(f, fmt, repo)
ObjectHash(data, fmt, hasRepo) ==
    \E obj \in {Constructed[<<data, fmt>>]}, r \in {object_hash(dirs, files, data, fmt, hasRepo)} :
        /\ dirs' = r.dirs
        /\ files' = r.files
        /\ last' = IF obj.ok
                   THEN [op |-> "object_write", obj |-> obj.val, aw |-> hasRepo, out |-> r.out]
                   ELSE [op |-> "object_hash", obj |-> NoObject, aw |-> hasRepo, out |-> r.out]
        /\ rep' = IF obj.ok THEN NextRep(obj.val, hasRepo) ELSE 0
        /\ UNCHANGED <<raceVars, walkVars, codecVars>>

Next ==
    \/ \E o \in Objects, aw \in BOOLEAN : ObjectWrite(o, aw)
    \/ \E i \in HashInputs, w \in BOOLEAN : ObjectHash(i[1], i[2], w)

Spec == Init /\ [][Next]_vars

\* A framed buffer: type SP length NUL payload, the length that of the payload
WellFramed(raw) ==
    LET x == PyFind(raw, SP, 0)
        y == PyFind(raw, NUL, 0)
    IN  /\ x >= 0 /\ y > x
        /\ PySlice(raw, 0, x) \in {fmtBlob, fmtCommit, fmtTag, fmtTree}
        /\ PySlice(raw, x + 1, y) = StrOfNat(Len(raw) - y - 1)

EntryIntact(p) ==
    LET raw == ZlibDecompress(files[p])
    IN  /\ p[1] \in dirs
        /\ Len(p[1]) = 2
        /\ raw.ok
        /\ WellFramed(raw.val)
        /\ Sha1Hex(raw.val) = p[1] \o p[2]

\* C1: a persisted object_write repeated straight after itself returns what
\* the first call returned and leaves the store (the directories, the entry
\* paths and the bytes at each path) as the first call left it.
C1_IdempotentWrite ==
    [][rep' = 2 => /\ last'.out = last.out
                   /\ dirs' = dirs
                   /\ files' = files]_vars

\* C1's case: an object was written twice in a row, a digest came back and
\* its entry is in the store.
C1_Witness ==
    /\ rep = 2
    /\ last.out.ok
    /\ <<Bucket(last.out.val), EntryName(last.out.val)>> \in DOMAIN files

\* C2: every entry of the store lies at objects/<d[0:2]>/<d[2:]>, d the
\* digest of the framed buffer it holds compressed, and no step changes the
\* decompressed bytes of an entry that exists.
C2_StoreIntegrity ==
    /\ [](\A p \in DOMAIN files : EntryIntact(p))
    /\ [][\A p \in DOMAIN files :
            /\ p \in DOMAIN files'
            /\ ZlibDecompress(files'[p]) = ZlibDecompress(files[p])]_vars

\* C2's case: the store holds entries of several objects and the last call
\* wrote one of them again.
C2_Witness ==
    /\ Cardinality(DOMAIN files) >= 3
    /\ Cardinality(dirs) >= 2
    /\ last.op = "object_write" /\ last.aw /\ rep = 2
    /\ \E o \in Objects : o.cls = "GitTree" /\ Encoded[o].z \in {files[p] : p \in DOMAIN files}

----------------------------------------------------------------------------
(* SpecRead: object_read, object_find, cat_file and ls-tree on a store that
   other runs and other programs have filled *)

PathOf(sha) == <<Bucket(sha), EntryName(sha)>>

StoreOf(entries) ==
    [p \in {PathOf(e.sha) : e \in entries} |->
        (CHOOSE e \in entries : PathOf(e.sha) = p).content]

\* Bucket directories that may exist with no entry in them
SpareBuckets == {Bucket(ShaAbsent), Bucket(ShaBlobEmpty)}

NoFormat == <<>>

\* argsp's choices=["blob", "commit", "tag", "tree"]
Formats == {fmtBlob, fmtCommit, fmtTag, fmtTree}

ReadInit ==
    /\ \E S \in SUBSET ReadEntries, X \in SUBSET SpareBuckets :
          /\ files = StoreOf(S)
          /\ dirs = {Bucket(e.sha) : e \in S} \cup X
    /\ last = [op |-> "none"] /\ rep = 0
    /\ IdleRace /\ IdleWalk /\ IdleCodec

Reading(op, sha, fmt, out) ==
    /\ last' = [op |-> op, sha |-> sha, fmt |-> fmt, out |-> out, before |-> <<dirs, files>>]
    /\ UNCHANGED <<dirs, files, rep, raceVars, walkVars, codecVars>>

ObjectRead(sha) == Reading("object_read", sha, NoFormat, object_read(dirs, files, sha))

ObjectFind(name, fmt) == Reading("object_find", name, fmt, object_find(dirs, files, name, fmt))

\* cmd_cat_file(args)
CatFile(name, fmt) == Reading("cat_file", name, fmt, cat_file(dirs, files, name, fmt))

CmdLsTree(name) == Reading("ls_tree", name, fmtTree, cmd_ls_tree(dirs, files, name))

ReadNext ==
    \/ \E sha \in ReadShas : ObjectRead(sha)
    \/ \E sha \in ReadShas, f \in Formats \cup {NoFormat} : ObjectFind(sha, f)
    \/ \E sha \in ReadShas, f \in Formats : CatFile(sha, f)
    \/ \E sha \in ReadShas : CmdLsTree(sha)

SpecRead == ReadInit /\ [][ReadNext]_vars

\* The exception of open() that says no file is at the path
ObjectNotFound == "FileNotFoundError"

\* The entry's bytes decompress to a header whose length is not the payload's
DeclaresWrongLength(content) ==
    LET raw == ZlibDecompress(content)
        x == PyFind(raw.val, SP, 0)
        y == PyFind(raw.val, NUL, x)
        size == IntOfAscii(PySlice(raw.val, x, y))
    IN  raw.ok /\ size.ok /\ size.val # Len(raw.val) - y - 1

\* C7: object_read of a digest with no entry, the bucket directory being
\* there or not, fails as ObjectNotFound; of an entry whose declared length
\* is not its payload's, as MalformedObject; and either leaves the store as
\* it was.
C7_ReadErrors ==
    last.op = "object_read" =>
        /\ PathOf(last.sha) \notin DOMAIN files => last.out = Err(ObjectNotFound)
        /\ (PathOf(last.sha) \in DOMAIN files /\ DeclaresWrongLength(files[PathOf(last.sha)]))
              => last.out = Err("MalformedObject")
        /\ last.before = <<dirs, files>>

\* The type tag of the object stored under sha, if one can be read
StoredFormat(sha) == object_read(dirs, files, sha)

\* C8: object_find with an expected type fails as ObjectTypeMismatch when
\* the object stored under the name has another type tag, and cat_file
\* writes out no object of a type other than the one asked for.
C8_ResolveTypeCheck ==
    /\ (/\ last.op = "object_find" /\ last.fmt # NoFormat
        /\ StoredFormat(last.sha).ok
        /\ StoredFormat(last.sha).val.fmt # last.fmt)
          => last.out = Err("ObjectTypeMismatch")
    /\ (/\ last.op = "cat_file"
        /\ StoredFormat(last.sha).ok
        /\ StoredFormat(last.sha).val.fmt # last.fmt)
          => ~last.out.ok

----------------------------------------------------------------------------
(* SpecRace: one process in object_write(obj) of an object that is not in
   the store, another in object_read of its digest *)

\* The objects object_write gets as far as the store with
Writable == {o \in Objects : Encoded[o].ok}

RaceInit ==
    /\ wobj \in Writable
    /\ \E X \in SUBSET {Bucket(Encoded[wobj].sha)} : dirs = X
    /\ files = NoFiles
    /\ last = [op |-> "none"] /\ rep = 0
    /\ wpc = "serialize" /\ wbuf = <<>>
    /\ rpc = "repo_file" /\ rres = NoRead
    /\ IdleWalk /\ IdleCodec

WriterKeeps == UNCHANGED <<last, rep, wobj, rpc, rres, walkVars, codecVars>>
ReaderKeeps == UNCHANGED <<dirs, files, last, rep, wobj, wpc, wbuf, walkVars, codecVars>>

RacePath == PathOf(Encoded[wobj].sha)

\* Lines 287-289: data, result, sha
WriterSerialize ==
    /\ wpc = "serialize"
    /\ wpc' = "repo_file"
    /\ wbuf' = Encoded[wobj].z
    /\ UNCHANGED <<dirs, files>> /\ WriterKeeps

\* Lines 292-293: repo_file(..., mkdir=True) makes the bucket directory
WriterRepoFile ==
    /\ wpc = "repo_file"
    /\ wpc' = "open"
    /\ dirs' = repo_file(dirs, RacePath[1], RacePath[2], TRUE).dirs
    /\ UNCHANGED <<files, wbuf>> /\ WriterKeeps

\* Line 295: open(path, 'wb')
WriterOpen ==
    /\ wpc = "open"
    /\ wpc' = "write"
    /\ files' = OpenForWrite(files, RacePath)
    /\ UNCHANGED <<dirs, wbuf>> /\ WriterKeeps

\* Line 296: the first k bytes of f.write(...) reach the file
WriterWrite(k) ==
    /\ wpc = "write"
    /\ files' = WriteBytes(files, RacePath, SubSeq(wbuf, 1, k))
    /\ wbuf' = SubSeq(wbuf, k + 1, Len(wbuf))
    /\ wpc' = IF k = Len(wbuf) THEN "done" ELSE "flush"
    /\ UNCHANGED dirs /\ WriterKeeps

\* Line 296 and the end of the with block: the rest reaches the file
WriterFlush ==
    /\ wpc = "flush"
    /\ files' = WriteBytes(files, RacePath, wbuf)
    /\ wbuf' = <<>>
    /\ wpc' = "done"
    /\ UNCHANGED dirs /\ WriterKeeps

\* Line 249: repo_file(repo, "objects", sha[0:2], sha[2:])
ReaderRepoFile ==
    /\ rpc = "repo_file"
    /\ rpc' = "open"
    /\ rres' = [rres EXCEPT !.found = repo_file(dirs, RacePath[1], RacePath[2], FALSE).found]
    /\ ReaderKeeps

\* Line 260: open(path, "rb")
ReaderOpen ==
    /\ rpc = "open"
    /\ \/ /\ ~rres.found
          /\ rpc' = "done" /\ rres' = [rres EXCEPT !.out = Err("TypeError")]
       \/ /\ rres.found /\ RacePath \notin DOMAIN files
          /\ rpc' = "done" /\ rres' = [rres EXCEPT !.out = Err("FileNotFoundError")]
       \/ /\ rres.found /\ RacePath \in DOMAIN files
          /\ rpc' = "read" /\ rres' = rres
    /\ ReaderKeeps

\* Lines 261-283: f.read() and all that object_read does with the bytes
ReaderRead ==
    /\ rpc = "read"
    /\ rpc' = "done"
    /\ rres' = [rres EXCEPT !.content = files[RacePath], !.out = Loaded[files[RacePath]]]
    /\ ReaderKeeps

RaceNext ==
    \/ WriterSerialize
    \/ WriterRepoFile
    \/ WriterOpen
    \/ \E k \in 0..Len(wbuf) : WriterWrite(k)
    \/ WriterFlush
    \/ ReaderRepoFile
    \/ ReaderOpen
    \/ ReaderRead

SpecRace == RaceInit /\ [][RaceNext]_vars

\* C3: a read of the digest that races with the write of its object fails
\* as ObjectNotFound or returns the object written, whole; it sees no empty
\* and no partly written entry.
C3_ReadWriteRace ==
    rpc = "done" =>
        \/ rres.out = Err(ObjectNotFound)
        \/ /\ rres.out = Ok(wobj)
           /\ rres.content = Encoded[wobj].z

----------------------------------------------------------------------------
(* SpecWalk: cmd_log's log_graphviz over a store of commits whose parent
   lines name one another in any way, cycles included *)

MaxEdges == 4

\* The parent links a history can have: commit i names ParentNames[j]
Links == (1..Len(CommitNames)) \X (1..Len(ParentNames))

RECURSIVE LinkSets(_)
LinkSets(k) ==
    IF k = 0 THEN {{}}
    ELSE LinkSets(k - 1) \cup {G \cup {e} : G \in LinkSets(k - 1), e \in Links}

Histories == LinkSets(MaxEdges)

\* Where the entries of a history's store lie, tabulated
CommitPaths == {PathOf(CommitNames[i]) : i \in 1..Len(CommitNames)}
CommitAt    == [p \in CommitPaths |-> CHOOSE i \in 1..Len(CommitNames) : PathOf(CommitNames[i]) = p]
BlobPath    == PathOf(ShaBlobA)
BlobContent == ObjectEntry(fmtBlob, <<97>>).content

\* The store of a history: its commits, and a blob
HistoryStore(G) ==
    [p \in CommitPaths \cup {BlobPath} |->
        IF p = BlobPath THEN BlobContent
        ELSE CommitContent[{j \in 1..Len(ParentNames) : <<CommitAt[p], j>> \in G}]]

\* A frame of log_graphviz: at its first line, or in its for loop before
\* parent i (counted from 1)
Frame0(sha) == [sha |-> sha, pc |-> "enter", parents |-> <<>>, i |-> 1]

WalkInit ==
    /\ \E G \in Histories : files = HistoryStore(G)
    /\ dirs = {p[1] : p \in DOMAIN files}
    /\ last = [op |-> "none"] /\ rep = 0
    /\ \E start \in {CommitNames[1], ShaAbsent, ShaBlobA} : stack = <<Frame0(start)>>
    /\ seen = {} /\ visits = <<>> /\ edges = <<>>
    /\ wstatus = Walk("running", "")
    /\ IdleRace /\ IdleCodec

WalkKeeps == UNCHANGED <<storeVars, raceVars, codecVars>>

Top == stack[Len(stack)]

\* The frame on top returns
Return ==
    /\ stack' = SubSeq(stack, 1, Len(stack) - 1)
    /\ wstatus' = IF Len(stack) = 1 THEN Walk("returned", "") ELSE wstatus

\* An exception leaves every frame
Raise(err) ==
    /\ stack' = <<>>
    /\ wstatus' = Walk("failed", err)

SeenNever(s, sha) == FALSE

\* if sha in seen
SeenHas(s, sha) == sha \in s

SeenKeep(s, sha) == s

\* seen.add(sha)
SeenAdd(s, sha) == s \cup {sha}

\* Lines 473-486 for a sha that is not in seen, commit being what
\* object_read came to
WalkCommit(commit) ==
    IF ~commit.ok THEN Raise(commit.err)
    ELSE IF commit.val.fmt # fmtCommit THEN Raise("AssertionError")
    ELSE IF KwParent \notin DictKeys(commit.val.kvlm) THEN Return
    ELSE /\ stack' = [stack EXCEPT ![Len(stack)] =
                        [@ EXCEPT !.pc = "loop", !.parents = DictVal(commit.val.kvlm, KwParent)]]
         /\ wstatus' = wstatus

\* log_graphviz from its first line to the for loop
WalkEnter ==
    /\ wstatus.st = "running" /\ Top.pc = "enter"
    /\ IF SeenHas(seen, Top.sha)
       THEN Return /\ UNCHANGED <<seen, visits>>
       ELSE /\ seen' = SeenAdd(seen, Top.sha)
            /\ visits' = Append(visits, Top.sha)
            /\ \E commit \in {object_read(dirs, files, Top.sha)} : WalkCommit(commit)
    /\ UNCHANGED edges /\ WalkKeeps

\* One pass of the for loop: the edge is printed and log_graphviz is called
\* on the parent; or the loop is over and the frame returns
WalkLoop ==
    /\ wstatus.st = "running" /\ Top.pc = "loop"
    /\ IF Top.i > Len(Top.parents)
       THEN Return /\ UNCHANGED edges
       ELSE /\ edges' = Append(edges, <<Top.sha, Top.i, Top.parents[Top.i]>>)
            /\ stack' = Append([stack EXCEPT ![Len(stack)] = [@ EXCEPT !.i = @ + 1]],
                               Frame0(Top.parents[Top.i]))
            /\ wstatus' = wstatus
    /\ UNCHANGED <<seen, visits>> /\ WalkKeeps

WalkNext == WalkEnter \/ WalkLoop

SpecWalk == WalkInit /\ [][WalkNext]_vars

SpecWalkFair == SpecWalk /\ WF_vars(WalkNext)

NoRepeat(q) == \A a, b \in 1..Len(q) : q[a] = q[b] => a = b

\* C4: in one walk no digest is read from the store twice and no parent
\* edge of a commit is printed twice, however many paths lead to the commit;
\* when the walk returns, every commit a parent line of a visited commit
\* names has been visited, once.
C4_VisitOnce ==
    /\ NoRepeat(visits)
    /\ NoRepeat(edges)
    /\ wstatus.st = "returned" =>
          \A e \in {edges[a] : a \in 1..Len(edges)} :
              Cardinality({a \in 1..Len(visits) : visits[a] = e[3]}) = 1

\* C4's case: the walk has returned from a history in which two commits
\* have the same parent.
C4_Witness ==
    /\ wstatus.st = "returned"
    /\ \E a, b \in 1..Len(edges) :
          /\ edges[a][1] # edges[b][1]
          /\ edges[a][3] = edges[b][3]
          /\ edges[a][3] \notin {edges[c][1] : c \in 1..Len(edges)}

\* The reads of the walk that found an entry
CommitsRead == {a \in 1..Len(visits) : PathOf(visits[a]) \in DOMAIN files}

\* C9: the walk comes to an end, returning or failing, and reads no more
\* commits than the store has entries.
C9_WalkTerminates ==
    /\ <>(wstatus.st \in {"returned", "failed"})
    /\ [](Cardinality(CommitsRead) <= Cardinality(DOMAIN files))

\* C9's case: the walk has returned from a history whose parent links form
\* a cycle through the starting commit.
C9_Witness ==
    /\ wstatus.st = "returned"
    /\ \E a \in 1..Len(edges) : edges[a][3] = visits[1] /\ edges[a][1] # visits[1]

----------------------------------------------------------------------------
(* SpecCodec: a payload is made into an object, the object is serialized,
   and what came out is made into an object again *)

KwSig == <<103, 112, 103, 115, 105, 103>>

RECURSIVE JoinLines(_, _)
JoinLines(ls, sep) ==
    IF Len(ls) = 1 THEN ls[1] ELSE ls[1] \o sep \o JoinLines(Tail(ls), sep)

\* A commit as git writes it whose gpgsig value has the lines ls: every line
\* after the first goes out behind one space
FoldedCommit(ls) ==
    KwTree \o <<SP>> \o ObjectDigest(fmtTree, TreeOne) \o <<NL>>
    \o KwSig \o <<SP>> \o JoinLines(ls, <<NL, SP>>) \o <<NL>>
    \o <<NL>> \o <<109, NL>>

\* Values of several lines; the last has a line that itself starts with a space
FoldedValues == {<<<<120>>, <<121>>>>, <<<<120>>, <<SP, 121>>, <<122>>>>}

CommitMerge == CommitBytes(ObjectDigest(fmtTree, TreeOne), <<CommitNames[1], CommitNames[2]>>, <<109, NL>>)

CodecInput(fmt, data) == [fmt |-> fmt, data |-> data]

\* What the codecs are handed: blobs, the tree of two entries cut off at
\* every length, commits with and without folded values and a folded commit
\* cut off at every length
CodecInputs ==
    {CodecInput(fmtBlob, b) : b \in BlobPayloads}
    \cup {CodecInput(fmtTree, t) : t \in Prefixes(TreeTwo) \cup {TreeOne}}
    \cup {CodecInput(fmtCommit, c) :
            c \in {CommitRoot, CommitMerge} \cup {FoldedCommit(ls) : ls \in FoldedValues}
                  \cup Prefixes(FoldedCommit(<<<<120>>, <<121>>>>))}

CodecInit ==
    /\ cin \in CodecInputs
    /\ cphase = "start"
    /\ cobj = Err("") /\ cser = Err("") /\ cobj2 = Err("")
    /\ IdleStore /\ IdleRace /\ IdleWalk

CodecKeeps == UNCHANGED <<cin, storeVars, raceVars, walkVars>>

\* GitObject.__init__: self.deserialize(data)
Deserialize ==
    /\ cphase = "start"
    /\ cphase' = "parsed"
    /\ cobj' = Construct(cin.fmt, cin.data)
    /\ UNCHANGED <<cser, cobj2>> /\ CodecKeeps

\* obj.serialize()
SerializeObject ==
    /\ cphase = "parsed" /\ cobj.ok
    /\ cphase' = "serialized"
    /\ cser' = Serialize(cobj.val)
    /\ UNCHANGED <<cobj, cobj2>> /\ CodecKeeps

\* kvlm_serialize(obj.kvlm)
KvlmSerialize ==
    /\ cphase = "parsed" /\ cobj.ok /\ cobj.val.cls = "GitCommit"
    /\ cphase' = "serialized"
    /\ cser' = kvlm_serialize(cobj.val.kvlm)
    /\ UNCHANGED <<cobj, cobj2>> /\ CodecKeeps

\* The constructor again, on what serialize returned
DeserializeAgain ==
    /\ cphase = "serialized" /\ cser.ok
    /\ cphase' = "reparsed"
    /\ cobj2' = Construct(cin.fmt, cser.val)
    /\ UNCHANGED <<cobj, cser>> /\ CodecKeeps

CodecNext == Deserialize \/ SerializeObject \/ KvlmSerialize \/ DeserializeAgain

SpecCodec == CodecInit /\ [][CodecNext]_vars

\* C5: the value kvlm_parse stores for a key whose value has continuation
\* lines is the lines joined by newlines, the one leading space of every
\* continuation line gone, and kvlm_serialize of the parse result is the
\* payload that was parsed.
C5_LineFolding ==
    \A ls \in FoldedValues :
        cin = CodecInput(fmtCommit, FoldedCommit(ls)) =>
            /\ cphase # "start" =>
                  /\ cobj.ok
                  /\ DictVal(cobj.val.kvlm, KwSig) = <<JoinLines(ls, <<NL>>)>>
            /\ (cphase \in {"serialized", "reparsed"} /\ cser.ok) => cser.val = cin.data

\* The payload from pos on is entries, each a mode of 5 or 6 bytes, a space,
\* a path, a NUL and 20 digest bytes
RECURSIVE CompleteEntries(_, _)
CompleteEntries(raw, pos) ==
    LET x == PyFind(raw, SP, pos)
        y == PyFind(raw, NUL, x)
    IN  \/ pos = Len(raw)
        \/ /\ pos < Len(raw)
           /\ x - pos \in {ModeLenShort, ModeLenLong}
           /\ y > x
           /\ y + 1 + ShaBytes <= Len(raw)
           /\ CompleteEntries(raw, y + 1 + ShaBytes)

\* The payloads of each variant that are well formed
WellFormed(in) ==
    \/ in.fmt = fmtBlob
    \/ in.fmt = fmtTree /\ CompleteEntries(in.data, 0)
    \/ /\ in.fmt = fmtCommit
       /\ in.data \in {CommitRoot, CommitMerge} \cup {FoldedCommit(ls) : ls \in FoldedValues}

\* C6: for a well-formed payload of a blob, a tree or a commit, serialize()
\* of the object made from it succeeds, and the object made from what it
\* returned is the first object, field for field.
C6_RoundTrip ==
    WellFormed(cin) =>
        /\ cphase # "start" => cobj.ok
        /\ cphase \in {"serialized", "reparsed"} => cser.ok
        /\ cphase = "reparsed" => cobj2 = cobj

\* C10: tree_parse of a payload whose last bytes are no complete entry
\* fails; it returns no list of entries.
C10_IncompleteEntry ==
    (/\ cin.fmt = fmtTree
     /\ ~CompleteEntries(cin.data, 0)
     /\ cphase # "start")
        => ~cobj.ok

====
